---- MODULE Spec2Model ----
(***************************************************************************)
(* Affective Analytics: the weighted-sum simulation endpoint               *)
(* (app/api/sim/route.ts, here src/unnamed/part_001) and the MCP           *)
(* percentile engine with its sensitivity analysis (src/mcp.js), the      *)
(* relay tool of src/mcp/server.js and the UI page (src/unnamed/part_002). *)
(*                                                                         *)
(* Numbers.  A JavaScript number is modelled as a record [t, v]: t is      *)
(* "number" (v is its value), "NaN", "Infinity", "-Infinity" or            *)
(* "undefined" (a missing or null field).  Once the code has clamped a     *)
(* value it is a plain integer.  A uniform draw is a 32-bit word           *)
(* <<hi, lo>> of two 16-bit halves standing for word / 2^32.               *)
(***************************************************************************)
EXTENDS Integers, Naturals, Sequences, FiniteSets, TLC

VARIABLES
    \* ---- weighted-sum endpoint (route.ts POST) ----
    pc,          \* position of the POST handler: "start", "loop", "done"
    body,        \* the parsed request body
    iterations,  \* const iterations (clamped)
    threshold,   \* const threshold (clamped)
    enabled,     \* const enabled (the assumptions that pass the filter)
    rng,         \* the uniform source: [seeded |-> BOOLEAN, t |-> word]
    i,           \* loop counter of the trial loop
    success,     \* let success
    draws,       \* number of calls of rng() made for this request
    response,    \* the JSON response, NoResponse until returned
    prev,        \* the previous request and its response (<<>> at first)
    \* ---- MCP handler, runSimulation and sensitivity (mcp.js) ----
    hpc,         \* position: "start", "run", "base", "low", "high", "done"
    req,         \* the HTTP request
    res,         \* the HTTP response
    variables,   \* runSimulation: its argument, the entries in order
    runN,        \* runSimulation: its argument n
    trial,       \* runSimulation: the loop counter i
    samples,     \* runSimulation: the samples of the trial, in entry order
    outcomes,    \* runSimulation: const outcomes
    zeros,       \* number of zero values Math.random has returned
    lastZ,       \* runSimulation: const z of the last sample (undefined before)
    results,     \* the value returned by the last runSimulation
    sensIdx,     \* sensitivity: index of the entry being mapped
    resLow,      \* sensitivity: const resLow
    rows,        \* sensitivity: the rows mapped so far, then the sorted rows
    \* ---- MCP relay tool run_decision_mc (mcp/server.js) ----
    tpc,         \* position of the tool callback: "start", "fetching",
                 \* "responded", "done"
    args,        \* the validated arguments of the tool call
    sent,        \* the body of the request sent to the engine (<<>> before)
    resp,        \* const resp, NoEngineResponse until fetch resolves
    toolResult,  \* what the callback returned or threw, NoToolResult before
    \* ---- the UI page (app/page.tsx, here src/unnamed/part_002) ----
    inputs,      \* the state assumptions, iterations, threshold: its version
    handle,      \* the pending timer of the effect with the inputs its closure
                 \* holds, <<>> when none is pending
    loading,     \* the state loading
    result,      \* the state result: <<>> for null, else the response shown
    errorMsg,    \* the state error: <<>> for null, else the message shown
    issued,      \* number of calls of runSim so far; the last one has this id
    inflight     \* the requests of runSim whose fetch has not settled

simVars == <<pc, body, iterations, threshold, enabled, rng, i, success,
             draws, response, prev>>

mcpVars == <<hpc, req, res, variables, runN, trial, samples, outcomes, zeros,
             lastZ, results, sensIdx, resLow, rows>>

relayVars == <<tpc, args, sent, resp, toolResult>>

uiVars == <<inputs, handle, loading, result, errorMsg, issued, inflight>>

vars == <<simVars, mcpVars, relayVars, uiVars>>

----------------------------------------------------------------------------
(* Bounds of the model *)

\* largest number of zero values the uniform source returns: in a row
\* before a draw of randn, and during one call or request of mcp.js
MaxRedraws == 1

\* largest n runSimulation is called with on its own
MaxTrials == 3

\* the handler calls runSimulation with n = 10000 for the base run and
\* sensitivity calls it with n = 5000; the model runs BaseTrials and
\* SensTrials trials instead
BaseTrials == 1
SensTrials == 1

\* largest number of edits of the page's inputs, and of calls of runSim
MaxEdits == 2
MaxRequests == 3

----------------------------------------------------------------------------
(* JavaScript numbers *)

Undefined == [t |-> "undefined", v |-> 0]
NaN       == [t |-> "NaN", v |-> 0]
PosInf    == [t |-> "Infinity", v |-> 0]
NegInf    == [t |-> "-Infinity", v |-> 0]
Num(x)    == [t |-> "number", v |-> x]

Max2(a, b) == IF a >= b THEN a ELSE b
Min2(a, b) == IF a <= b THEN a ELSE b

\* x ?? d
Coalesce(x, d) == IF x = Undefined THEN Num(d) ELSE x

\* body.iterations is carried in units of 1/IterUnit so that Math.floor acts
IterUnit == 2
MathFloor(x) == IF x.t = "number" THEN Num(x.v \div IterUnit) ELSE x

clampNaNToMax(n, min, max) ==
    IF n.t = "NaN" THEN max ELSE Max2(min, Min2(max, n.v))

clamp(n, min, max) ==
    IF n.t = "NaN" THEN min ELSE Max2(min, Min2(max, n.v))

----------------------------------------------------------------------------
(* 32-bit words and Mulberry32 *)

W16 == 65536

RECURSIVE Xor(_, _, _)
Xor(a, b, n) ==
    IF n = 0 THEN 0
    ELSE (((a % 2) + (b % 2)) % 2) + 2 * Xor(a \div 2, b \div 2, n - 1)

RECURSIVE Or(_, _, _)
Or(a, b, n) ==
    IF n = 0 THEN 0
    ELSE Max2(a % 2, b % 2) + 2 * Or(a \div 2, b \div 2, n - 1)

\* a ^ b on 4-bit digits, tabulated once
XorDigit == [a \in 0..15 |-> [b \in 0..15 |-> Xor(a, b, 4)]]

Xor8(a, b) == XorDigit[a \div 16][b \div 16] * 16 + XorDigit[a % 16][b % 16]

Xor16(a, b) == Xor8(a \div 256, b \div 256) * 256 + Xor8(a % 256, b % 256)

Xor32(a, b) == <<Xor16(a[1], b[1]), Xor16(a[2], b[2])>>
Or32(a, b)  == <<Or(a[1], b[1], 16), Or(a[2], b[2], 16)>>

Pow2(k) == IF k = 7 THEN 128 ELSE IF k = 14 THEN 16384 ELSE 32768

\* a >>> k for 0 < k < 16
Shr32(a, k) ==
    <<a[1] \div Pow2(k),
      ((a[1] % Pow2(k)) * (W16 \div Pow2(k)) + a[2] \div Pow2(k)) % W16>>

Add32(a, b) ==
    <<(a[1] + b[1] + ((a[2] + b[2]) \div W16)) % W16, (a[2] + b[2]) % W16>>

\* the low 16 bits of x * y, x and y 16-bit
MulLow16(x, y) ==
    (x * (y % 256) + ((x * (y \div 256)) % 256) * 256) % W16

\* bits 16..31 of x * y, x and y 16-bit
MulHigh16(x, y) ==
    ((x * (y % 256) + ((x * (y \div 256)) % 256) * 256) \div W16
       + (x * (y \div 256)) \div 256) % W16

\* Math.imul(a, b): the low 32 bits of the product
Imul(a, b) ==
    <<(MulHigh16(a[2], b[2]) + MulLow16(a[1], b[2]) + MulLow16(a[2], b[1])) % W16,
      MulLow16(a[2], b[2])>>

\* seed >>> 0 for an integer seed
ToUint32(s) == <<(s \div W16) % W16, s % W16>>

Golden == <<27947, 31221>>      \* 0x6D2B79F5

\* let x = Math.imul(t ^ (t >>> 15), 1 | t)
MixFirst(t) == Imul(Xor32(t, Shr32(t, 15)), Or32(<<0, 1>>, t))

\* x ^= x + Math.imul(x ^ (x >>> 7), 61 | x)
MixSecond(x) == Xor32(x, Add32(x, Imul(Xor32(x, Shr32(x, 7)), Or32(<<0, 61>>, x))))

\* (x ^ (x >>> 14)) >>> 0
MixLast(x) == Xor32(x, Shr32(x, 14))

\* the word returned for the state t already advanced
Mulberry32Out(t) == [t |-> t, out |-> MixLast(MixSecond(MixFirst(t)))]

\* one call of the closure returned by mulberry32: the new t and the word
\* whose quotient by 2^32 is returned
Mulberry32Step(t) == Mulberry32Out(Add32(t, Golden))

mulberry32(seed) == [seeded |-> TRUE, t |-> ToUint32(seed)]

----------------------------------------------------------------------------
(* The standard normal sample (Box-Muller) *)

ZeroWord == <<0, 0>>

\* the quarter of [0,1) a uniform draw lies in
Quadrant(w) == w[1] \div 16384

\* sqrt(-2 ln u) * cos(2 pi v), evaluated at the midpoints of the quarters
\* of u and v and rounded to an integer: sqrt(-2 ln u) is 2.04, 1.40, 0.97,
\* 0.52 and cos(2 pi v) is 0.71, -0.71, -0.71, 0.71
Radius(u) == <<1, 1, 1, 0>>[Quadrant(u) + 1]
CosSign(v) == <<1, -1, -1, 1>>[Quadrant(v) + 1]

BoxMuller(u, v) == Radius(u) * CosSign(v)

\* while (u === 0) u = rng() for the seeded source: the state after the
\* first non-zero word, that word, and the number of calls made
RECURSIVE DrawNonZero(_, _)
RedrawIfZero(r, n) ==
    IF r.out = ZeroWord THEN DrawNonZero(r.t, n + 1)
    ELSE [t |-> r.t, out |-> r.out, calls |-> n + 1]

DrawNonZero(t, n) == RedrawIfZero(Mulberry32Step(t), n)

\* the return value of randn for the draws du (u) and dv (v)
randnOf(du, dv) ==
    [t |-> dv.t, z |-> BoxMuller(du.out, dv.out), calls |-> du.calls + dv.calls]

randnAfterU(du) == randnOf(du, DrawNonZero(du.t, 0))

\* randn(rng) on the seeded source
randnSeeded(t) == randnAfterU(DrawNonZero(t, 0))

\* the non-zero values Math.random returns in the model: one word in the
\* quarter 0 and one in the quarter 1
RandomWords == {<<8192, 1>>, <<24576, 2>>}

\* randn(Math.random): zu and zv zero values are drawn and dropped before
\* the non-zero u and v
RandomDraws == [zu : 0..MaxRedraws, u : RandomWords, zv : 0..MaxRedraws, v : RandomWords]

\* the draws of a run in which Math.random never returns 0
NonZeroDraws == {d \in RandomDraws : d.zu = 0 /\ d.zv = 0}

randnRandom(d) == [z |-> BoxMuller(d.u, d.v), calls |-> d.zu + 1 + d.zv + 1]

----------------------------------------------------------------------------
(* mcp.js: runSimulation *)

\* a value of the variables map; isNull is a null config
Config(base, min, max) == [isNull |-> FALSE, base |-> base, min |-> min, max |-> max]
NullConfig == [isNull |-> TRUE, base |-> Undefined, min |-> Undefined, max |-> Undefined]

\* Object.entries(variables) is a sequence of entries
Entry(name, config) == [name |-> name, config |-> config]

IsNumber(x) == x.t = "number"

\* what Math.random() returns: [0, 1), zero included
MathRandomValues == RandomWords \cup {ZeroWord}

CountZeros(u1, u2) == (IF u1 = ZeroWord THEN 1 ELSE 0) + (IF u2 = ZeroWord THEN 1 ELSE 0)

\* lines 13-15: z = sqrt(-2 log u1) * cos(2 pi u2), u1 = 0 not excluded:
\* log(0) is -Infinity, the square root Infinity, and the cosine of a double
\* is never 0, so z is Infinity or -Infinity
Normal(u1, u2) ==
    IF u1 = ZeroWord THEN (IF CosSign(u2) > 0 THEN PosInf ELSE NegInf)
    ELSE Num(BoxMuller(u1, u2))

\* z * std in quarter units, std = (max - min) / 4 and spread = max - min
TimesStd(z, spread) ==
    IF IsNumber(z) THEN Num(z.v * spread)
    ELSE IF spread = 0 THEN NaN
    ELSE IF (z = PosInf) = (spread > 0) THEN PosInf ELSE NegInf

PlusBase(base4, x) == IF IsNumber(x) THEN Num(base4 + x.v) ELSE x

\* Math.max(min, Math.min(max, x)) in quarter units
ClampSample(x, min4, max4) ==
    IF x = NaN THEN NaN
    ELSE IF x = PosInf THEN Num(Max2(min4, max4))
    ELSE IF x = NegInf THEN Num(min4)
    ELSE Num(Max2(min4, Min2(max4, x.v)))

\* line 16-17: the sample of one variable, in quarter units; a missing base,
\* min or max makes the arithmetic NaN
SampleOf(config, z) ==
    IF IsNumber(config.base) /\ IsNumber(config.min) /\ IsNumber(config.max)
    THEN ClampSample(PlusBase(4 * config.base.v,
                              TimesStd(z, config.max.v - config.min.v)),
                     4 * config.min.v, 4 * config.max.v)
    ELSE NaN

\* samples[name], undefined when the map has no such variable
RECURSIVE SampleNamed(_, _, _, _)
SampleNamed(vs, ss, name, k) ==
    IF k = 0 THEN Undefined
    ELSE IF vs[k].name = name THEN ss[k]
    ELSE SampleNamed(vs, ss, name, k - 1)

\* lines 21-25 on quarter units, the result in units of 1/1024:
\* cost = salary * benefits, projects = 20 * utilization,
\* effective = projects * 0.75 + projects * 0.25 * ramp,
\* revenue = effective * win * value, outcome = revenue - cost
Hiring(salary, benefits, utilization, ramp, win, value) ==
    IF /\ IsNumber(salary) /\ IsNumber(benefits) /\ IsNumber(utilization)
       /\ IsNumber(ramp) /\ IsNumber(win) /\ IsNumber(value)
    THEN Num((12 * (20 * utilization.v) + (20 * utilization.v) * ramp.v) * win.v * value.v
               - 64 * salary.v * benefits.v)
    ELSE NaN

Outcome(vs, ss) ==
    Hiring(SampleNamed(vs, ss, "salary", Len(vs)),
           SampleNamed(vs, ss, "benefits_multiplier", Len(vs)),
           SampleNamed(vs, ss, "utilization_rate", Len(vs)),
           SampleNamed(vs, ss, "ramp_up_discount", Len(vs)),
           SampleNamed(vs, ss, "project_win_rate", Len(vs)),
           SampleNamed(vs, ss, "avg_project_value", Len(vs)))

HasNaN(s) == \E k \in 1..Len(s) : s[k] = NaN

\* a < b on numbers; every comparison with NaN is false
Less(a, b) == IsNumber(a) /\ IsNumber(b) /\ a.v < b.v
LessEq(a, b) == IsNumber(a) /\ IsNumber(b) /\ a.v <= b.v

\* (a, b) => a - b is a consistent comparison unless a NaN, which it
\* equates with everything, sits among two different numbers
ConsistentAscending(s) ==
    ~HasNaN(s) \/ \A a, b \in 1..Len(s) : (s[a] # NaN /\ s[b] # NaN) => s[a] = s[b]

RECURSIVE InsertAscending(_, _)
InsertAscending(s, x) ==
    IF s = <<>> THEN <<x>>
    ELSE IF Less(x, s[Len(s)])
         THEN Append(InsertAscending(SubSeq(s, 1, Len(s) - 1), x), s[Len(s)])
         ELSE Append(s, x)

RECURSIVE SortAscending(_, _)
SortAscending(s, k) ==
    IF k = 0 THEN <<>> ELSE InsertAscending(SortAscending(s, k - 1), s[k])

PermutationsOf(s) ==
    {[k \in 1..Len(s) |-> s[f[k]]] :
        f \in {g \in [1..Len(s) -> 1..Len(s)] :
                  \A a, b \in 1..Len(s) : a # b => g[a] # g[b]}}

\* line 28: outcomes.sort((a, b) => a - b); the order is implementation-
\* defined when the comparison is not consistent
SortOutcomes(s) ==
    IF ConsistentAscending(s) THEN {SortAscending(s, Len(s))} ELSE PermutationsOf(s)

RECURSIVE SumOutcomes(_, _)
SumOutcomes(s, k) == IF k = 0 THEN 0 ELSE SumOutcomes(s, k - 1) + s[k].v

\* outcomes.reduce((a, b) => a + b) / n, kept as a fraction
MeanOf1024(s, cnt) ==
    IF HasNaN(s) THEN [t |-> "NaN", num |-> 0, den |-> cnt]
    ELSE [t |-> "number", num |-> SumOutcomes(s, Len(s)), den |-> cnt]

\* lines 30-36; Math.floor(n * 0.1) and Math.floor(n * 0.9) are n \div 10 and
\* 9n \div 10 for the n of the model
Stats(sorted, cnt) ==
    [mean |-> MeanOf1024(sorted, cnt),
     median |-> sorted[(cnt \div 2) + 1],
     p10 |-> sorted[(cnt \div 10) + 1],
     p90 |-> sorted[((9 * cnt) \div 10) + 1],
     prob_positive |-> [num |-> Cardinality({k \in 1..Len(sorted) :
                                               IsNumber(sorted[k]) /\ sorted[k].v > 0}),
                        den |-> cnt]]

NoResults ==
    [mean |-> [t |-> "undefined", num |-> 0, den |-> 1],
     median |-> Undefined, p10 |-> Undefined, p90 |-> Undefined,
     prob_positive |-> [num |-> 0, den |-> 1]]

----------------------------------------------------------------------------
(* mcp.js: sensitivity *)

Abs(x) == IF x < 0 THEN -x ELSE x

NaNImpact == [t |-> "NaN", num |-> 0, den |-> 1]

\* |diff / base * 100| for diff = diffNum / diffDen and a numeric base
ImpactFrom(diffNum, diffDen, base) ==
    IF base.num = 0
    THEN (IF diffNum = 0 THEN NaNImpact ELSE [t |-> "Infinity", num |-> 0, den |-> 1])
    ELSE [t |-> "number", num |-> Abs(diffNum) * base.den * 100,
          den |-> diffDen * Abs(base.num)]

\* line 47: Math.abs((resHigh.mean - resLow.mean) / baseResults.mean * 100)
Impact(low, high, base) ==
    IF low.t = "number" /\ high.t = "number" /\ base.t = "number"
    THEN ImpactFrom(high.num * low.den - low.num * high.den, low.den * high.den, base)
    ELSE NaNImpact

\* a < b on impacts
\* the rows of one analysis share the denominator of their impacts
ImpactLess(a, b) ==
    /\ a.t = "number"
    /\ \/ b.t = "Infinity"
       \/ b.t = "number" /\ a.den = b.den /\ a.num < b.num
       \/ b.t = "number" /\ a.den # b.den /\ a.num * b.den < b.num * a.den

ImpactEq(a, b) ==
    \/ a.t = "Infinity" /\ b.t = "Infinity"
    \/ a.t = "number" /\ b.t = "number" /\ a.den = b.den /\ a.num = b.num
    \/ a.t = "number" /\ b.t = "number" /\ a.den # b.den /\ a.num * b.den = b.num * a.den

\* (a, b) => b.impact_percent - a.impact_percent is a consistent comparison
\* unless a NaN impact sits among two different impacts
ConsistentDescending(rs) ==
    \/ \A k \in 1..Len(rs) : rs[k].impact_percent.t # "NaN"
    \/ \A a, b \in 1..Len(rs) :
          (rs[a].impact_percent.t # "NaN" /\ rs[b].impact_percent.t # "NaN")
             => ImpactEq(rs[a].impact_percent, rs[b].impact_percent)

RECURSIVE InsertDescending(_, _)
InsertDescending(rs, r) ==
    IF rs = <<>> THEN <<r>>
    ELSE IF ImpactLess(rs[Len(rs)].impact_percent, r.impact_percent)
         THEN Append(InsertDescending(SubSeq(rs, 1, Len(rs) - 1), r), rs[Len(rs)])
         ELSE Append(rs, r)

RECURSIVE SortDescending(_, _)
SortDescending(rs, k) ==
    IF k = 0 THEN <<>> ELSE InsertDescending(SortDescending(rs, k - 1), rs[k])

\* line 58: the stable sort of the rows, implementation-defined when the
\* comparison is not consistent
SortRows(rs) ==
    IF ConsistentDescending(rs) THEN {SortDescending(rs, Len(rs))} ELSE PermutationsOf(rs)

\* lines 42-43: { ...variables, [name]: { ...config, base: value } }
WithBase(vs, k, value) == [vs EXCEPT ![k].config.base = value]

\* lines 49-57
Row(entry, low, high, base) ==
    [variable |-> entry.name,
     base |-> entry.config.base, min |-> entry.config.min, max |-> entry.config.max,
     outcome_at_low |-> low.mean, outcome_at_high |-> high.mean,
     impact_percent |-> Impact(low.mean, high.mean, base.mean)]

----------------------------------------------------------------------------
(* mcp.js: handler *)

McpRequest(method, hasBody, rpc, hasParams, name, hasArgs, hasVariables, vs) ==
    [method |-> method, hasBody |-> hasBody, rpc |-> rpc, hasParams |-> hasParams,
     name |-> name, hasArgs |-> hasArgs, hasVariables |-> hasVariables, variables |-> vs]

NoRequest == McpRequest("", FALSE, "", FALSE, "", FALSE, FALSE, <<>>)

HttpResponse(status, error, content) ==
    [status |-> status, error |-> error, content |-> content]

NoResponseYet == HttpResponse(0, "", <<>>)

\* Math.round of an outcome in units of 1/1024
MathRound(x) == IF IsNumber(x) THEN Num((x.v + 512) \div 1024) ELSE x

\* lines 124-142: the text of the answer, by its parts
Summary(base, sorted) ==
    <<[pessimistic |-> MathRound(base.p10), expected |-> MathRound(base.median),
       optimistic |-> MathRound(base.p90), prob_positive |-> base.prob_positive,
       most_sensitive |-> sorted[1].variable,
       impact |-> sorted[1].impact_percent]>>

McpIdle ==
    /\ hpc = "idle"
    /\ req = NoRequest
    /\ res = NoResponseYet
    /\ variables = <<>> /\ runN = 0 /\ trial = 0 /\ samples = <<>> /\ outcomes = <<>>
    /\ zeros = 0 /\ lastZ = Undefined
    /\ results = NoResults /\ sensIdx = 0 /\ resLow = NoResults /\ rows = <<>>

\* res.status(...).json(...) and return
Reply(status, error, content) ==
    /\ res' = HttpResponse(status, error, content)
    /\ hpc' = "done"

\* a call of runSimulation(vs, cnt) begins
BeginRun(mode, vs, cnt) ==
    /\ hpc' = mode
    /\ variables' = vs
    /\ runN' = cnt
    /\ trial' = 0
    /\ samples' = <<>>
    /\ outcomes' = <<>>

\* Dispatch without the test of the tool name
DispatchAnyTool(r) ==
    IF r.method = "OPTIONS" THEN HttpResponse(200, "", <<>>)
    ELSE IF r.method = "GET" THEN HttpResponse(200, "healthy", <<>>)
    ELSE IF r.method # "POST" THEN HttpResponse(405, "Method not allowed", <<>>)
    ELSE IF ~r.hasBody THEN HttpResponse(0, "uncaught TypeError", <<>>)
    ELSE IF r.rpc = "tools/list" THEN HttpResponse(200, "tools", <<>>)
    ELSE IF r.rpc # "tools/call" THEN HttpResponse(404, "Unknown method", <<>>)
    ELSE IF ~r.hasParams THEN HttpResponse(500, "TypeError", <<>>)
    ELSE IF ~r.hasArgs \/ ~r.hasVariables THEN HttpResponse(500, "TypeError", <<>>)
    ELSE NoResponseYet

\* lines 62-156 without the simulation: the answer of a request that
\* needs none, with the exceptions of the destructurings, and no answer yet
\* for a well-formed call of analyze_decision.  The TypeError of line 82
\* (no body) is thrown outside the try block: status 0 stands for the
\* handler ending with an uncaught exception
Dispatch(r) ==
    IF r.method = "OPTIONS" THEN HttpResponse(200, "", <<>>)
    ELSE IF r.method = "GET" THEN HttpResponse(200, "healthy", <<>>)
    ELSE IF r.method # "POST" THEN HttpResponse(405, "Method not allowed", <<>>)
    ELSE IF ~r.hasBody THEN HttpResponse(0, "uncaught TypeError", <<>>)
    ELSE IF r.rpc = "tools/list" THEN HttpResponse(200, "tools", <<>>)
    ELSE IF r.rpc # "tools/call" THEN HttpResponse(404, "Unknown method", <<>>)
    ELSE IF ~r.hasParams THEN HttpResponse(500, "TypeError", <<>>)
    ELSE IF r.name # "analyze_decision" THEN HttpResponse(404, "Unknown method", <<>>)
    ELSE IF ~r.hasArgs \/ ~r.hasVariables THEN HttpResponse(500, "TypeError", <<>>)
    ELSE NoResponseYet

\* the handler is entered: it answers at once or calls runSimulation(variables)
Handle ==
    /\ hpc = "start"
    /\ IF Dispatch(req) = NoResponseYet
       THEN BeginRun("base", req.variables, BaseTrials) /\ UNCHANGED res
       ELSE /\ res' = Dispatch(req)
            /\ hpc' = "done"
            /\ UNCHANGED <<variables, runN, trial, samples, outcomes>>
    /\ UNCHANGED <<req, zeros, lastZ, results, sensIdx, resLow, rows>>
    /\ UNCHANGED <<simVars, relayVars, uiVars>>

InRun == hpc \in {"run", "base", "low", "high"}

\* lines 10-18: one iteration of the loop over the entries; randoms is what
\* Math.random may return
DrawSample(randoms) ==
    /\ InRun
    /\ trial < runN
    /\ Len(samples) < Len(variables)
    /\ IF variables[Len(samples) + 1].config.isNull
       THEN /\ Reply(500, "TypeError", <<>>)
            /\ UNCHANGED <<samples, zeros, lastZ>>
       ELSE \E u1 \in randoms, u2 \in randoms :
               /\ zeros + CountZeros(u1, u2) <= MaxRedraws
               /\ zeros' = zeros + CountZeros(u1, u2)
               /\ lastZ' = Normal(u1, u2)
               /\ samples' = Append(samples, SampleOf(variables[Len(samples) + 1].config,
                                                      Normal(u1, u2)))
               /\ UNCHANGED <<hpc, res>>
    /\ UNCHANGED <<req, variables, runN, trial, outcomes, results, sensIdx, resLow, rows>>
    /\ UNCHANGED <<simVars, relayVars, uiVars>>

\* lines 20-25: the outcome of the trial is pushed
EndTrial ==
    /\ InRun
    /\ trial < runN
    /\ Len(samples) = Len(variables)
    /\ outcomes' = Append(outcomes, Outcome(variables, samples))
    /\ trial' = trial + 1
    /\ samples' = <<>>
    /\ UNCHANGED <<hpc, req, res, variables, runN, zeros, lastZ, results, sensIdx, resLow,
                   rows>>
    /\ UNCHANGED <<simVars, relayVars, uiVars>>

\* the last row is mapped: line 58 sorts, lines 124-142 answer
AnswerWith(allRows) ==
    \E sorted \in SortRows(allRows) :
        /\ rows' = sorted
        /\ Reply(200, "", Summary(results, sorted))
        /\ UNCHANGED <<variables, runN, trial, samples, outcomes, results, sensIdx, resLow>>

\* runSimulation returns st to its caller
Return(st) ==
    IF hpc = "run"
    THEN /\ results' = st
         /\ hpc' = "done"
         /\ UNCHANGED <<res, variables, runN, trial, samples, outcomes, sensIdx, resLow, rows>>
    ELSE IF hpc = "base"
    THEN /\ results' = st
         /\ IF Len(req.variables) = 0
            THEN /\ Reply(500, "TypeError", <<>>)
                 /\ UNCHANGED <<variables, runN, trial, samples, outcomes, sensIdx>>
            ELSE /\ BeginRun("low", WithBase(req.variables, 1, req.variables[1].config.min),
                             SensTrials)
                 /\ sensIdx' = 1
                 /\ UNCHANGED res
         /\ UNCHANGED <<resLow, rows>>
    ELSE IF hpc = "low"
    THEN /\ resLow' = st
         /\ BeginRun("high", WithBase(req.variables, sensIdx, req.variables[sensIdx].config.max),
                     SensTrials)
         /\ UNCHANGED <<res, results, sensIdx, rows>>
    ELSE IF sensIdx < Len(req.variables)
    THEN /\ rows' = Append(rows, Row(req.variables[sensIdx], resLow, st, results))
         /\ BeginRun("low", WithBase(req.variables, sensIdx + 1,
                                     req.variables[sensIdx + 1].config.min), SensTrials)
         /\ sensIdx' = sensIdx + 1
         /\ UNCHANGED <<res, results, resLow>>
    ELSE AnswerWith(Append(rows, Row(req.variables[sensIdx], resLow, st, results)))

\* lines 28-36: the sort and the statistics, then the caller goes on
EndRun ==
    /\ InRun
    /\ trial = runN
    /\ \E sorted \in SortOutcomes(outcomes) : Return(Stats(sorted, runN))
    /\ UNCHANGED <<req, zeros, lastZ>>
    /\ UNCHANGED <<simVars, relayVars, uiVars>>

----------------------------------------------------------------------------
(* mcp/server.js: the callback of the tool run_decision_mc *)

\* the arguments after inputSchema: iterations and threshold are numbers,
\* assumptions stands for the array, here by its length
ToolArgs(its, th, count) == [iterations |-> its, threshold |-> th, assumptions |-> count]

NoToolArgs == ToolArgs(0, 0, 0)

\* what the engine answers: a status and a body that is JSON or other text
EngineResponse(status, bodyText, isJson) ==
    [status |-> status, bodyText |-> bodyText, isJson |-> isJson]

NoEngineResponse == EngineResponse(0, "", FALSE)

\* resp.ok: the status is in the range 200-299
Ok(r) == r.status >= 200 /\ r.status <= 299

\* the callback's promise: fulfilled with a tool response (kind "return")
\* or rejected with the exception the callback did not catch ("throw")
ToolReturn(text, status, bodyText, structured) ==
    [kind |-> "return", text |-> text, status |-> status, bodyText |-> bodyText,
     structured |-> structured, error |-> ""]

ToolThrow(error) ==
    [kind |-> "throw", text |-> "", status |-> 0, bodyText |-> "",
     structured |-> FALSE, error |-> error]

NoToolResult ==
    [kind |-> "none", text |-> "", status |-> 0, bodyText |-> "",
     structured |-> FALSE, error |-> ""]

RelayIdle ==
    /\ tpc = "idle"
    /\ args = NoToolArgs
    /\ sent = <<>>
    /\ resp = NoEngineResponse
    /\ toolResult = NoToolResult

\* lines 39-49: fetch(engineUrl, {method: "POST", body: JSON.stringify(...)})
\* is called and awaited
RelayFetch ==
    /\ tpc = "start"
    /\ sent' = <<[iterations |-> args.iterations, threshold |-> args.threshold,
                  assumptions |-> args.assumptions]>>
    /\ tpc' = "fetching"
    /\ UNCHANGED <<args, resp, toolResult>>
    /\ UNCHANGED <<simVars, mcpVars, uiVars>>

\* line 41: the awaited fetch resolves with the engine's response
RelayResolve(responses) ==
    /\ tpc = "fetching"
    /\ resp' \in responses
    /\ tpc' = "responded"
    /\ UNCHANGED <<args, sent, toolResult>>
    /\ UNCHANGED <<simVars, mcpVars, uiVars>>

\* line 41: the awaited fetch rejects (the engine cannot be reached, or
\* ENGINE_URL is not a URL); no try block encloses the await, so the
\* callback's promise rejects with the same error
RelayReject ==
    /\ tpc = "fetching"
    /\ \E error \in {"fetch failed", "Invalid URL"} : toolResult' = ToolThrow(error)
    /\ tpc' = "done"
    /\ UNCHANGED <<args, sent, resp>>
    /\ UNCHANGED <<simVars, mcpVars, uiVars>>

\* lines 51-64: the error text for a response that is not ok; otherwise
\* resp.json(), which rejects when the body is not JSON, and the result
\* with structuredContent
ResultOf(r) ==
    IF ~Ok(r) THEN ToolReturn("Engine error", r.status, r.bodyText, FALSE)
    ELSE IF ~r.isJson THEN ToolThrow("SyntaxError")
    ELSE ToolReturn("Simulation complete.", 0, "", TRUE)

RelayReturn ==
    /\ tpc = "responded"
    /\ toolResult' = ResultOf(resp)
    /\ tpc' = "done"
    /\ UNCHANGED <<args, sent, resp>>
    /\ UNCHANGED <<simVars, mcpVars, uiVars>>

----------------------------------------------------------------------------
(* The UI page: runSim, the debounced effect and the Re-run button *)

\* the page is not rendered
UiIdle ==
    /\ inputs = 0
    /\ handle = <<>>
    /\ loading = FALSE
    /\ result = <<>>
    /\ errorMsg = <<>>
    /\ issued = 0
    /\ inflight = {}

\* lines 42-52 and 80-86: the first render; the effect runs and sets its
\* timer
UiMounted ==
    /\ inputs = 0
    /\ handle = <<0>>
    /\ loading = FALSE
    /\ result = <<>>
    /\ errorMsg = <<>>
    /\ issued = 0
    /\ inflight = {}

\* lines 56-64: runSim(req) up to the await of fetch
runSim(reqInputs) ==
    /\ issued < MaxRequests
    /\ loading' = TRUE
    /\ errorMsg' = <<>>
    /\ issued' = issued + 1
    /\ inflight' = inflight \cup {[id |-> issued + 1, inputs |-> reqInputs]}
    /\ UNCHANGED result

\* lines 88-101, 219, 230: an input changes; the effect's cleanup clears the
\* pending timer and the effect sets a new one (lines 80-86)
Edit ==
    /\ inputs < MaxEdits
    /\ inputs' = inputs + 1
    /\ handle' = <<inputs + 1>>
    /\ UNCHANGED <<loading, result, errorMsg, issued, inflight>>
    /\ UNCHANGED <<simVars, mcpVars, relayVars>>

\* lines 81-83: the timer fires after 250 ms and calls runSim with the
\* inputs of its closure
TimerFires ==
    /\ handle # <<>>
    /\ runSim(handle[1])
    /\ handle' = <<>>
    /\ UNCHANGED inputs
    /\ UNCHANGED <<simVars, mcpVars, relayVars>>

\* lines 124-130: the Re-run button, disabled while loading
ClickRerun ==
    /\ ~loading
    /\ runSim(inputs)
    /\ UNCHANGED <<inputs, handle>>
    /\ UNCHANGED <<simVars, mcpVars, relayVars>>

\* lines 65-76: the fetch of request r settles: with a 2xx JSON response
\* ("ok"), with another status ("not ok") or by rejecting ("failed")
Settle ==
    \E r \in inflight, outcome \in {"ok", "not ok", "failed"} :
        /\ inflight' = inflight \ {r}
        /\ IF outcome = "ok"
           THEN result' = <<r>> /\ UNCHANGED errorMsg
           ELSE errorMsg' = <<[id |-> r.id, text |-> outcome]>> /\ result' = <<>>
        /\ loading' = FALSE
        /\ UNCHANGED <<inputs, handle, issued>>
        /\ UNCHANGED <<simVars, mcpVars, relayVars>>

----------------------------------------------------------------------------
(* The weighted-sum endpoint: POST of app/api/sim/route.ts *)

MinIterations == 1000
MaxIterations == 300000
DefaultIterations == 20000
MinThreshold == -1000
MaxThreshold == 1000
MinMean == -1000000
MaxValue == 1000000

NullAssumption ==
    [isNull |-> TRUE, mean |-> Undefined, std |-> Undefined, weight |-> Undefined,
     direction |-> "positive", enabled |-> FALSE]

Assumption(mean, std, weight, direction, en) ==
    [isNull |-> FALSE, mean |-> mean, std |-> std, weight |-> weight,
     direction |-> direction, enabled |-> en]

SimRequest(its, th, isArray, as, seed) ==
    [iterations |-> its, threshold |-> th, isArray |-> isArray,
     assumptions |-> as, seed |-> seed]

NoResponse ==
    [iterations |-> 0, probabilitySuccess |-> [num |-> 0, den |-> 1], label |-> "",
     summary |-> [threshold |-> 0, enabledCount |-> 0]]

IsEnabledIgnoresFlag(a) == ~a.isNull

\* a?.enabled
IsEnabled(a) == ~a.isNull /\ a.enabled

MeanOf(a)   == clamp(Coalesce(a.mean, 0), MinMean, MaxValue)
StdOf(a)    == clamp(Coalesce(a.std, 0), 0, MaxValue)
WeightOf(a) == clamp(Coalesce(a.weight, 1), 0, MaxValue)
SignOf(a)   == IF a.direction = "negative" THEN -1 ELSE 1

ContributionIgnoresDirection(a, z) == WeightOf(a) * (MeanOf(a) + StdOf(a) * z)

\* sign * weight * sample with sample = mean + std * randn(rng)
Contribution(a, z) == SignOf(a) * WeightOf(a) * (MeanOf(a) + StdOf(a) * z)

\* the score of one trial: zs[j] is the normal sample drawn for enabled[j]
RECURSIVE Score(_, _, _)
Score(en, zs, j) ==
    IF j = 0 THEN 0 ELSE Score(en, zs, j - 1) + Contribution(en[j], zs[j])

\* the inner loop on the seeded source: the normal samples in order and the
\* state of the generator after them
RECURSIVE SeededSamples(_, _)
AddSample(before, r) ==
    [t |-> r.t, zs |-> Append(before.zs, r.z), calls |-> before.calls + r.calls]

NextSample(before) == AddSample(before, randnSeeded(before.t))

SeededSamples(t, k) ==
    IF k = 0 THEN [t |-> t, zs |-> <<>>, calls |-> 0]
    ELSE NextSample(SeededSamples(t, k - 1))

RECURSIVE SumCalls(_, _)
SumCalls(ds, j) == IF j = 0 THEN 0 ELSE SumCalls(ds, j - 1) + randnRandom(ds[j]).calls

LabelStrict(num, den) ==
    IF 100 * num <= 33 * den THEN "LOW"
    ELSE IF 100 * num <= 66 * den THEN "MEDIUM" ELSE "HIGH"

\* p < 0.33 ? "LOW" : p < 0.66 ? "MEDIUM" : "HIGH" with p = num / den; the
\* distance of num/den to 0.33 or 0.66 is 0 or at least 1/(100 * den), far
\* above the rounding of the division, so the comparison of the doubles is
\* the comparison of the fractions
Label(num, den) ==
    IF 100 * num < 33 * den THEN "LOW"
    ELSE IF 100 * num < 66 * den THEN "MEDIUM" ELSE "HIGH"

\* Start with a generator that outlives the request
StartSharedGenerator ==
    /\ pc = "start"
    /\ iterations' = clamp(MathFloor(Coalesce(body.iterations, DefaultIterations * IterUnit)),
                           MinIterations, MaxIterations)
    /\ threshold' = clamp(Coalesce(body.threshold, 0), MinThreshold, MaxThreshold)
    /\ enabled' = SelectSeq(IF body.isArray THEN body.assumptions ELSE <<>>, IsEnabled)
    /\ rng' = IF body.seed.t = "number"
              THEN (IF rng.seeded THEN rng ELSE mulberry32(body.seed.v))
              ELSE [seeded |-> FALSE, t |-> ZeroWord]
    /\ success' = 0
    /\ i' = 0
    /\ draws' = 0
    /\ pc' = "loop"
    /\ UNCHANGED <<body, response, prev>>
    /\ UNCHANGED <<mcpVars, relayVars, uiVars>>

\* lines 45-55: parse, clamp, filter, choose the uniform source
Start ==
    /\ pc = "start"
    /\ iterations' = clamp(MathFloor(Coalesce(body.iterations, DefaultIterations * IterUnit)),
                           MinIterations, MaxIterations)
    /\ threshold' = clamp(Coalesce(body.threshold, 0), MinThreshold, MaxThreshold)
    /\ enabled' = SelectSeq(IF body.isArray THEN body.assumptions ELSE <<>>, IsEnabled)
    /\ rng' = IF body.seed.t = "number" THEN mulberry32(body.seed.v)
              ELSE [seeded |-> FALSE, t |-> ZeroWord]
    /\ success' = 0
    /\ i' = 0
    /\ draws' = 0
    /\ pc' = "loop"
    /\ UNCHANGED <<body, response, prev>>
    /\ UNCHANGED <<mcpVars, relayVars, uiVars>>

\* lines 58-70: the score of the samples r.zs against the threshold, and
\* the generator and the number of calls after them
TrialOutcome(r) ==
    /\ rng' = [rng EXCEPT !.t = r.t]
    /\ draws' = draws + r.calls
    /\ success' = IF Score(enabled, r.zs, Len(enabled)) > threshold
                  THEN success + 1 ELSE success

\* lines 57-71: one iteration of the trial loop; randoms is what Math.random
\* may return during one call of randn
Trial(randoms) ==
    /\ pc = "loop"
    /\ i < iterations
    /\ IF rng.seeded
       THEN TrialOutcome(SeededSamples(rng.t, Len(enabled)))
       ELSE \E ds \in [1..Len(enabled) -> randoms] :
                /\ (draws + SumCalls(ds, Len(enabled))) - 2 * Len(enabled) * (i + 1)
                      <= MaxRedraws
                /\ TrialOutcome([t |-> rng.t,
                                 zs |-> [j \in 1..Len(enabled) |-> randnRandom(ds[j]).z],
                                 calls |-> SumCalls(ds, Len(enabled))])
    /\ i' = i + 1
    /\ UNCHANGED <<pc, body, iterations, threshold, enabled, response, prev>>
    /\ UNCHANGED <<mcpVars, relayVars, uiVars>>

\* lines 73-85: the probability, its label and the response
Finish ==
    /\ pc = "loop"
    /\ i >= iterations
    /\ response' = [iterations |-> iterations,
                    probabilitySuccess |-> [num |-> success, den |-> iterations],
                    label |-> Label(success, iterations),
                    summary |-> [threshold |-> threshold, enabledCount |-> Len(enabled)]]
    /\ pc' = "done"
    /\ UNCHANGED <<body, iterations, threshold, enabled, rng, i, success, draws, prev>>
    /\ UNCHANGED <<mcpVars, relayVars, uiVars>>

\* the next request reaches the endpoint once the previous one is answered
NextRequest(requests) ==
    /\ pc = "done"
    /\ prev' = <<[body |-> body, response |-> response]>>
    /\ body' \in requests
    /\ pc' = "start"
    /\ response' = NoResponse
    /\ iterations' = 0 /\ threshold' = 0 /\ enabled' = <<>>
    /\ i' = 0 /\ success' = 0 /\ draws' = 0
    /\ UNCHANGED rng
    /\ UNCHANGED <<mcpVars, relayVars, uiVars>>

\* the endpoint before a request reaches it
SimIdle ==
    /\ iterations = 0 /\ threshold = 0 /\ enabled = <<>>
    /\ rng = [seeded |-> FALSE, t |-> ZeroWord]
    /\ i = 0 /\ success = 0 /\ draws = 0
    /\ response = NoResponse
    /\ prev = <<>>

SimInit(requests) ==
    /\ pc = "start"
    /\ body \in requests
    /\ SimIdle
    /\ McpIdle
    /\ RelayIdle
    /\ UiIdle

----------------------------------------------------------------------------
(* The requests the endpoint is run on *)

Pos(m, s, w) == Assumption(Num(m), Num(s), Num(w), "positive", TRUE)
Neg(m, s, w) == Assumption(Num(m), Num(s), Num(w), "negative", TRUE)

\* one assumption with spread: a trial succeeds or fails with the draws
SpreadList == <<Pos(0, 1, 1)>>

\* lists whose enabled assumptions all have std 0 after clamping
ZeroStdLists ==
    { <<Pos(1, 0, 1)>>,
      <<Neg(1, 0, 1)>>,
      <<Pos(3, 0, 2), Assumption(Num(5), Undefined, Num(1), "negative", TRUE)>>,
      <<Assumption(Num(2), Num(-4), Undefined, "positive", TRUE), Assumption(Num(7), Num(1), Num(1), "positive", FALSE)>> }

\* lists with no enabled assumption
DisabledLists ==
    { <<>>,
      <<Assumption(Num(1), Num(1), Num(1), "positive", FALSE)>>,
      <<NullAssumption, Assumption(Undefined, NaN, Num(2), "negative", FALSE)>> }

\* lists whose numeric fields are malformed, missing or out of range
AnomalousLists ==
    { <<Assumption(Num(2000000), NaN, Undefined, "positive", TRUE)>>,
      <<Assumption(NaN, Num(2000000), Num(-3), "negative", TRUE)>>,
      <<Assumption(Undefined, Undefined, Num(2000000), "positive", TRUE)>>,
      <<Assumption(Num(-2), Num(-1), NaN, "", TRUE)>>,
      <<Assumption(NaN, NaN, Num(1), "positive", TRUE)>> }

Thresholds == {Undefined, NaN, Num(-5000), Num(-1), Num(0), Num(1), Num(5000)}

\* body.iterations in units of 1/IterUnit: missing, malformed, -1.5, 1000.5,
\* 1001.5 and 350000
IterationInputs == {Undefined, NaN, Num(-3), Num(2001), Num(2003), Num(700000)}

SimRequests ==
    {SimRequest(Num(2000), th, TRUE, as, Undefined) :
              th \in {Num(0), Num(1), Num(2)}, as \in ZeroStdLists}
    \cup {SimRequest(Num(2000), th, TRUE, as, Undefined) :
              th \in Thresholds, as \in DisabledLists}
    \cup {SimRequest(Num(2000), th, FALSE, SpreadList, Undefined) : th \in Thresholds}
    \cup {SimRequest(its, Undefined, TRUE, <<>>, Undefined) : its \in IterationInputs}
    \cup {SimRequest(NaN, Num(0), TRUE, as, Undefined) : as \in AnomalousLists}

\* the requests whose probability depends on the draws
LabelRequests ==
    {SimRequest(Num(2000), Num(0), TRUE, SpreadList, seed) : seed \in {Undefined, Num(42)}}

SeedRequests ==
    {SimRequest(Num(2000), th, TRUE, SpreadList, Num(seed)) :
        th \in {Num(0), Num(1)}, seed \in {1, -7}}

----------------------------------------------------------------------------
(* The variable maps and the requests of the MCP handler *)

Fixed(name, value) == Entry(name, Config(Num(value), Num(value), Num(value)))

\* the six variables of the hiring model, all without spread: every trial
\* of the base run has the outcome 20 * 1 * (0.75 + 0.25) * 1 * 1 - 2 = 18
FixedMap ==
    <<Fixed("salary", 2), Fixed("benefits_multiplier", 1), Fixed("utilization_rate", 1),
      Fixed("ramp_up_discount", 1), Fixed("project_win_rate", 1),
      Fixed("avg_project_value", 1)>>

\* no spread and the outcome 0 - 0 = 0 in every trial
ZeroMeanMap ==
    <<Fixed("salary", 0), Fixed("benefits_multiplier", 1), Fixed("utilization_rate", 1),
      Fixed("ramp_up_discount", 1), Fixed("project_win_rate", 1),
      Fixed("avg_project_value", 0)>>

\* salary in [0, 2] around 1, the other variables without spread
SpreadMap == [FixedMap EXCEPT ![1] = Entry("salary", Config(Num(1), Num(0), Num(2)))]

\* a map that lacks five variables of the hiring model
SalaryOnlyMap == <<Fixed("salary", 2)>>

NullConfigMap == <<Entry("salary", NullConfig)>>

RunMaps == {FixedMap, ZeroMeanMap, SpreadMap, SalaryOnlyMap, <<>>}

Analyze(vs) ==
    McpRequest("POST", TRUE, "tools/call", TRUE, "analyze_decision", TRUE, TRUE, vs)

\* calls whose base run has a mean other than 0
SensRequests == {Analyze(vs) : vs \in {FixedMap, SpreadMap}}

\* calls whose variables have no spread
FixedRequests == {Analyze(vs) : vs \in {FixedMap, ZeroMeanMap}}

McpRequests ==
    {McpRequest(m, FALSE, "", FALSE, "", FALSE, FALSE, <<>>) :
        m \in {"OPTIONS", "GET", "PUT", "POST"}}
    \cup {McpRequest("POST", TRUE, rpc, hasParams, name, hasArgs, FALSE, <<>>) :
            rpc \in {"", "tools/list", "tools/call", "initialize"},
            hasParams \in BOOLEAN,
            name \in {"", "analyze_decision", "run_decision_mc"},
            hasArgs \in BOOLEAN}
    \cup {Analyze(vs) : vs \in {FixedMap, SalaryOnlyMap, NullConfigMap, <<>>}}

----------------------------------------------------------------------------
(* Specifications *)

\* the endpoint on requests with disabled, zero-spread and anomalous fields
Init == SimInit(SimRequests)

Next == Start \/ Trial(RandomDraws) \/ Finish

Spec == Init /\ [][Next]_vars

\* the endpoint on requests whose trials succeed or fail with the draws
LabelInit == SimInit(LabelRequests)

LabelNext == Start \/ Trial(NonZeroDraws) \/ Finish

SpecLabel == LabelInit /\ [][LabelNext]_vars

\* the endpoint answering seeded requests one after the other
SeedInit == SimInit(SeedRequests)

SeedNext == Start \/ Trial(NonZeroDraws) \/ Finish \/ NextRequest(SeedRequests)

SpecSeed == SeedInit /\ [][SeedNext]_vars

\* the endpoint while the MCP handler is observed
SimUnused ==
    /\ pc = "idle"
    /\ body = SimRequest(Undefined, Undefined, FALSE, <<>>, Undefined)
    /\ SimIdle

\* runSimulation(variables, n) on its own
RunInit ==
    /\ SimUnused
    /\ RelayIdle
    /\ UiIdle
    /\ hpc = "run"
    /\ variables \in RunMaps
    /\ runN \in 1..MaxTrials
    /\ req = NoRequest
    /\ res = NoResponseYet
    /\ trial = 0 /\ samples = <<>> /\ outcomes = <<>>
    /\ zeros = 0 /\ lastZ = Undefined
    /\ results = NoResults /\ sensIdx = 0 /\ resLow = NoResults /\ rows = <<>>

RunNext == DrawSample(MathRandomValues) \/ EndTrial \/ EndRun

SpecRun == RunInit /\ [][RunNext]_vars

McpInit(requests) ==
    /\ SimUnused
    /\ RelayIdle
    /\ UiIdle
    /\ hpc = "start"
    /\ req \in requests
    /\ res = NoResponseYet
    /\ variables = <<>> /\ runN = 0 /\ trial = 0 /\ samples = <<>> /\ outcomes = <<>>
    /\ zeros = 0 /\ lastZ = Undefined
    /\ results = NoResults /\ sensIdx = 0 /\ resLow = NoResults /\ rows = <<>>

McpNext == Handle \/ DrawSample(MathRandomValues) \/ EndTrial \/ EndRun

\* the handler on calls of analyze_decision, the base run and sensitivity,
\* in the runs where Math.random never returns 0
SensInit == McpInit(SensRequests)

SensNext == Handle \/ DrawSample(RandomWords) \/ EndTrial \/ EndRun

SpecSens == SensInit /\ [][SensNext]_vars

\* the same on the maps without spread
FixedInit == McpInit(FixedRequests)

SpecFixed == FixedInit /\ [][SensNext]_vars

\* the handler on every kind of request
HandlerInit == McpInit(McpRequests)

SpecMcp == HandlerInit /\ [][McpNext]_vars

\* the page from its first render on
UiInit ==
    /\ SimUnused
    /\ McpIdle
    /\ RelayIdle
    /\ UiMounted

UiNext == Edit \/ TimerFires \/ ClickRerun \/ Settle

SpecUi == UiInit /\ [][UiNext]_vars

\* the arguments inputSchema lets through
RelayArgs ==
    {ToolArgs(its, th, count) : its \in {1000, 20000, 200000}, th \in {-1, 0, 1},
                                count \in {1, 2}}

\* the answers of the engine: the JSON of a simulation, and the errors of
\* the endpoint or of what stands in front of it
EngineResponses ==
    {EngineResponse(status, bodyText, FALSE) :
        status \in {200, 204, 400, 404, 500, 502},
        bodyText \in {"", "Internal Server Error"}}
    \cup {EngineResponse(status, "{}", TRUE) : status \in {200, 201, 400, 500}}

\* one call of run_decision_mc
RelayInit ==
    /\ SimUnused
    /\ McpIdle
    /\ UiIdle
    /\ tpc = "start"
    /\ args \in RelayArgs
    /\ sent = <<>>
    /\ resp = NoEngineResponse
    /\ toolResult = NoToolResult

RelayNext == RelayFetch \/ RelayResolve(EngineResponses) \/ RelayReject \/ RelayReturn

SpecRelay == RelayInit /\ [][RelayNext]_vars

----------------------------------------------------------------------------
(* Properties of the weighted-sum endpoint *)

Probability == response.probabilitySuccess

C3_SeededRunsAgree ==
    (/\ pc = "done"
     /\ prev # <<>>
     /\ body.seed.t = "number"
     /\ prev[1].body = body)
    => /\ response.probabilitySuccess = prev[1].response.probabilitySuccess
       /\ response.label = prev[1].response.label

\* a seeded request is repeated and its probability depends on the draws
C3_Witness ==
    /\ pc = "done"
    /\ prev # <<>>
    /\ body.seed.t = "number"
    /\ prev[1].body = body
    /\ draws > 0
    /\ 0 < Probability.num /\ Probability.num < Probability.den

NoneEnabled(b) ==
    ~b.isArray \/ \A j \in 1..Len(b.assumptions) :
                      b.assumptions[j].isNull \/ ~b.assumptions[j].enabled

\* C4: when no assumption of the request is enabled, no trial succeeds
\* unless the threshold is below 0, and then every trial does; no random
\* draw is made; the response has probabilitySuccess 1 (threshold < 0) or 0
\* (threshold >= 0) and enabledCount 0.  Stated for Spec.
C4_NothingEnabled ==
    (pc # "start" /\ NoneEnabled(body)) =>
        /\ draws = 0
        /\ success = IF threshold < 0 THEN i ELSE 0
        /\ pc = "done" =>
             /\ Probability.num = IF threshold < 0 THEN Probability.den ELSE 0
             /\ response.summary.enabledCount = 0

\* a list of disabled assumptions, one of them with spread, is answered
C4_Witness ==
    /\ pc = "done"
    /\ body.isArray /\ Len(body.assumptions) > 0
    /\ NoneEnabled(body)
    /\ threshold < 0
    /\ Probability = [num |-> 1000, den |-> 1000]

\* the enabled assumptions of the request, read from the body
EnabledIndexes(b) ==
    IF b.isArray
    THEN {j \in 1..Len(b.assumptions) : ~b.assumptions[j].isNull /\ b.assumptions[j].enabled}
    ELSE {}

UsedField(x, default, min, max) ==
    IF x = Undefined THEN default
    ELSE IF x = NaN THEN min
    ELSE IF x.v < min THEN min ELSE IF x.v > max THEN max ELSE x.v

AllZeroStd(b) ==
    \A j \in EnabledIndexes(b) : UsedField(b.assumptions[j].std, 0, 0, 1000000) = 0

SignedMean(a) ==
    (IF a.direction = "negative" THEN -1 ELSE 1)
      * UsedField(a.weight, 1, 0, 1000000) * UsedField(a.mean, 0, -1000000, 1000000)

RECURSIVE FixedScore(_, _)
FixedScore(b, j) ==
    IF j = 0 THEN 0
    ELSE FixedScore(b, j - 1)
           + (IF j \in EnabledIndexes(b) THEN SignedMean(b.assumptions[j]) ELSE 0)

\* C5: when every enabled assumption has std 0, every trial scores the sum
\* of sign * weight * mean whatever is drawn, so probabilitySuccess is 1 if
\* that sum exceeds the threshold and 0 otherwise; {mean 1, std 0, weight 1}
\* with threshold 0 gives 1 and HIGH when positive, 0 and LOW when negative.
\* Stated for Spec.
C5_ZeroStdIsDeterministic ==
    (pc # "start" /\ AllZeroStd(body)) =>
        LET sum == FixedScore(body, IF body.isArray THEN Len(body.assumptions) ELSE 0)
        IN  /\ success = IF sum > threshold THEN i ELSE 0
            /\ pc = "done" =>
                 /\ Probability.num = IF sum > threshold THEN Probability.den ELSE 0
                 /\ (body.assumptions = <<Pos(1, 0, 1)>> /\ threshold = 0)
                       => Probability.num = Probability.den /\ response.label = "HIGH"
                 /\ (body.assumptions = <<Neg(1, 0, 1)>> /\ threshold = 0)
                       => Probability.num = 0 /\ response.label = "LOW"

\* the negative scenario is answered after draws, one of them a redraw
C5_Witness ==
    /\ pc = "done"
    /\ body.assumptions = <<Neg(1, 0, 1)>>
    /\ threshold = 0
    /\ draws > 2 * iterations
    /\ Probability.num = 0
    /\ response.label = "LOW"

\* C6: whatever the numeric fields of the body are, the iterations used and
\* echoed lie in [1000, 300000], the threshold used and echoed in
\* [-1000, 1000], each enabled assumption's mean in [-1e6, 1e6], its std and
\* weight in [0, 1e6], a NaN field takes the minimum of its range, and the
\* response is a normal one.  Stated for Spec.
C6_FieldsAreClamped ==
    pc # "start" =>
        /\ 1000 <= iterations /\ iterations <= 300000
        /\ -1000 <= threshold /\ threshold <= 1000
        /\ body.iterations = NaN => iterations = 1000
        /\ body.threshold = NaN => threshold = -1000
        /\ \A j \in 1..Len(enabled) :
              /\ -1000000 <= MeanOf(enabled[j]) /\ MeanOf(enabled[j]) <= 1000000
              /\ 0 <= StdOf(enabled[j]) /\ StdOf(enabled[j]) <= 1000000
              /\ 0 <= WeightOf(enabled[j]) /\ WeightOf(enabled[j]) <= 1000000
              /\ enabled[j].mean = NaN => MeanOf(enabled[j]) = -1000000
              /\ enabled[j].std = NaN => StdOf(enabled[j]) = 0
              /\ enabled[j].weight = NaN => WeightOf(enabled[j]) = 0
        /\ pc = "done" =>
              /\ response.iterations = iterations
              /\ response.summary.threshold = threshold
              /\ Probability.den = iterations
              /\ 0 <= Probability.num /\ Probability.num <= Probability.den
              /\ response.label \in {"LOW", "MEDIUM", "HIGH"}
              /\ ((\E j \in 1..Len(enabled) :
                      /\ enabled[j].mean = NaN /\ enabled[j].std = NaN
                      /\ WeightOf(enabled[j]) > 0 /\ SignOf(enabled[j]) = 1)
                    /\ Len(enabled) = 1 /\ threshold = 0)
                  => Probability.num = 0

\* a request with NaN iterations and an assumption whose mean and std are
\* NaN is answered over 1000 iterations
C6_Witness ==
    /\ pc = "done"
    /\ body.iterations = NaN
    /\ response.iterations = 1000
    /\ Len(enabled) = 1
    /\ enabled[1].mean = NaN /\ enabled[1].std = NaN /\ enabled[1].weight = Num(1)
    /\ Probability.num = 0

----------------------------------------------------------------------------
(* Properties of runSimulation, sensitivity and the MCP handler *)

\* C2: every run of runSimulation returns p10 <= median <= p90.  Stated
\* for SpecRun.
C2_PercentilesOrdered ==
    (hpc = "done" /\ res = NoResponseYet) =>
        /\ LessEq(results.p10, results.median)
        /\ LessEq(results.median, results.p90)

ZeroImpact(r) == r.impact_percent.t = "number" /\ r.impact_percent.num = 0

\* the place of a variable in the input map
RECURSIVE IndexOf(_, _, _)
IndexOf(vs, name, k) ==
    IF k = 0 THEN 0 ELSE IF vs[k].name = name THEN k ELSE IndexOf(vs, name, k - 1)

InputIndex(r) == IndexOf(req.variables, r.variable, Len(req.variables))

Answered == hpc = "done" /\ res.status = 200 /\ rows # <<>>

\* C7: a variable whose min equals its max gets impact_percent 0 and no
\* variable with another impact comes after it in the returned list; the
\* zero-impact variables keep their input order.  Stated for SpecSens.
C7_NoSpreadNoImpact ==
    Answered =>
        \A k \in 1..Len(rows) :
            rows[k].min = rows[k].max =>
                /\ ZeroImpact(rows[k])
                /\ \A j \in (k + 1)..Len(rows) :
                      ZeroImpact(rows[j]) /\ InputIndex(rows[k]) < InputIndex(rows[j])

\* C8: when the mean of the base run is 0 the analysis ends without an
\* exception and every impact_percent is 0 or infinite, never NaN; when no
\* variable has spread every impact_percent is 0.  Stated for SpecFixed.
C8_ZeroMeanIsGuarded ==
    (hpc = "done" /\ results.mean.t = "number" /\ results.mean.num = 0) =>
        /\ res.status = 200
        /\ Len(rows) = Len(req.variables)
        /\ \A k \in 1..Len(rows) :
              /\ ZeroImpact(rows[k]) \/ rows[k].impact_percent.t = "Infinity"
              /\ (\A j \in 1..Len(rows) : rows[j].min = rows[j].max) => ZeroImpact(rows[k])

\* a >= b on impacts; every comparison with NaN is false
ImpactGeq(a, b) == a.t # "NaN" /\ b.t # "NaN" /\ ~ImpactLess(a, b)

\* C9: the analysis returns one row per input variable, by non-increasing
\* impact_percent, rows of equal impact_percent in the order of the input
\* map.  Stated for SpecFixed.
C9_RowsByImpact ==
    Answered =>
        /\ Len(rows) = Len(req.variables)
        /\ \A k \in 1..Len(req.variables) :
              \E j \in 1..Len(rows) : rows[j].variable = req.variables[k].name
        /\ \A k \in 1..(Len(rows) - 1) :
              /\ ImpactGeq(rows[k].impact_percent, rows[k + 1].impact_percent)
              /\ ImpactEq(rows[k].impact_percent, rows[k + 1].impact_percent)
                    => InputIndex(rows[k]) < InputIndex(rows[k + 1])

C12_NormalSamplesAreFinite ==
    /\ lastZ = Undefined \/ IsNumber(lastZ)
    /\ \A k \in 1..Len(samples) : IsNumber(samples[k])

----------------------------------------------------------------------------
(* Properties of the relay tool run_decision_mc *)

\* the call to the engine has failed: fetch rejected, or answered non-2xx
EngineFailed ==
    \/ tpc = "done" /\ resp = NoEngineResponse
    \/ resp # NoEngineResponse /\ ~Ok(resp)

\* C11: when the callback of run_decision_mc is done it has returned a tool
\* response and thrown nothing; if the call to the engine failed (fetch
\* rejected or the status is not 2xx) the response is the error text with
\* the engine's status and body text; structuredContent is returned only
\* for a 2xx response.  Stated for SpecRelay.
C11_FailuresAreReturned ==
    tpc = "done" =>
        /\ toolResult.kind = "return"
        /\ EngineFailed =>
              /\ toolResult.text = "Engine error"
              /\ toolResult.status = resp.status
              /\ toolResult.bodyText = resp.bodyText
        /\ toolResult.structured => Ok(resp)

----------------------------------------------------------------------------
(* Properties of the UI page *)

\* the page shows the response (result or error) to request id and nothing
\* of another request
Shows(id) ==
    \/ result # <<>> /\ result[1].id = id /\ errorMsg = <<>>
    \/ errorMsg # <<>> /\ errorMsg[1].id = id /\ result = <<>>

\* C13: loading is true while a request of runSim is in flight, and once
\* every issued request has settled the page shows the result or the error
\* of the request issued last.  Stated for SpecUi.
C13_LatestResponseShown ==
    /\ inflight # {} => loading
    /\ (issued > 0 /\ inflight = {}) => Shows(issued)

====
